---------------------------- MODULE Spec2Model ----------------------------
(***************************************************************************)
(* Model of src/main/lte.go: initialization and management of a SIM7600X   *)
(* LTE modem over a serial port with AT commands.                          *)
(*                                                                         *)
(* A response line is a sequence of symbols: the delimiters ":" "," " "    *)
(* and atoms (maximal runs of other characters), so that strings.Split,    *)
(* the comparison with "9011" and strconv.ParseInt act on it as they act   *)
(* on the characters.  The serial handle is the kernel receive buffer      *)
(* (kbuf), the bufio.Scanner's own buffer (sbuf) and the scanner's sticky  *)
(* error (serr).  Two goroutines exist: "main" runs initLTE, "poller"      *)
(* runs updateLTEStatus once initLTE has started it.                       *)
(***************************************************************************)
EXTENDS Integers, Sequences, FiniteSets, TLC

\* ---- bounds of the model ------------------------------------------------
MaxOpenFails == 2   \* failed serial.OpenPort attempts the environment makes
MaxLines     == 2   \* lines the device emits before the sentinel of an answer
NegCodes     == 2   \* signal-quality codes below 0 that are decoded
MaxCode      == 201 \* the largest signal-quality code that is decoded

Procs == {"main", "poller"}

\* ---- response lines -----------------------------------------------------
OKL    == <<"OK">>
ERRL   == <<"ERROR">>
URC    == <<"RDY">>
ICCIDL == <<"+ICCID", ":", " ", "89010">>
SPNL   == <<"+CSPN", ":", " ", "\"Op\"", ",", "0">>
IMEIL  == <<"+SIMEI", ":", " ", "86753">>
PIDL   == <<"+CUSBPIDSWITCH", ":", " ", "9011">>
PIDNS  == <<"+CUSBPIDSWITCH", ":", "9011">>
PIDOLD == <<"+CUSBPIDSWITCH", ":", " ", "9001">>
CSQL   == <<"+CSQ", ":", " ", "15", ",", "99">>
CSQNS  == <<"+CSQ", ":", "15", ",", "99">>
COPSL  == <<"+COPS", ":", " ", "0", ",", "0", ",", "\"Op\"", ",", "7">>
COPS0  == <<"+COPS", ":", " ", "0">>
CPSIL  == <<"+CPSI", ":", " ", "LTE", ",", "Online">>

\* ---- the command each call site of atCommandExchange writes -------------
CmdAt(site) ==
  CASE site = "boot" -> "AT"
    [] site = "cfg1" -> "AT+CICCID"
    [] site = "cfg2" -> "AT+CSPN?"
    [] site = "cfg3" -> "AT+SIMEI?"
    [] site = "cfg4" -> "AT+CUSBPIDSWITCH?"
    [] site = "cfg5" -> "AT+CUSBPIDSWITCH=9011,1,1"
    [] site = "cfg6" -> "AT+CGDCONT=1"
    [] site = "cfg7" -> "AT+CGDCONT=6"
    [] site = "cfg8" -> "AT+CRESET"
    [] site = "gps1" -> "AT+CGPS=0"
    [] site = "gps2" -> "AT+CGPSNMEAPORTCFG=3"
    [] site = "gps3" -> "AT+CGPSNMEA=197119"
    [] site = "gps4" -> "AT+CGPSNMEARATE=1"
    [] site = "gps5" -> "AT+CGPS=1"
    [] site = "gps6" -> "AT+CGPSINFOCFG=1,31"
    [] site = "q1"   -> "AT+CSQ"
    [] site = "q2"   -> "AT+COPS?"
    [] site = "q3"   -> "AT+CPSI?"

CfgSites  == {"cfg1", "cfg2", "cfg3", "cfg4", "cfg5", "cfg6", "cfg7", "cfg8"}
GpsSites  == {"gps1", "gps2", "gps3", "gps4", "gps5", "gps6"}
PollSites == {"q1", "q2", "q3"}
ExSites   == {"boot"} \cup CfgSites \cup GpsSites \cup PollSites

\* What the device may say while a command is in flight: the sentinels, an
\* unsolicited line, and answers to the query it was sent.
Answers(cmd) ==
  CASE cmd = "AT+CICCID"          -> {ICCIDL}
    [] cmd = "AT+CSPN?"           -> {SPNL}
    [] cmd = "AT+SIMEI?"          -> {IMEIL}
    [] cmd = "AT+CUSBPIDSWITCH?"  -> {PIDL, PIDNS, PIDOLD}
    [] cmd = "AT+CSQ"             -> {CSQL, CSQNS}
    [] cmd = "AT+COPS?"           -> {COPSL, COPS0}
    [] cmd = "AT+CPSI?"           -> {CPSIL}
    [] OTHER                      -> {}

VARIABLES
  enabled,    \* globalSettings.LTE_Enabled
  pc,         \* [Procs -> program point]
  phase,      \* [Procs -> position inside atCommandExchange]
  data,       \* [Procs -> the lines atCommandExchange has accumulated]
  err,        \* [Procs -> the error atCommandExchange returned]
  scanned,    \* [Procs -> what scanner.Scan() yielded in this exchange]
  open,       \* the serial port is open (the atmodem handle exists)
  portErr,    \* the error waitForPort returned ("none" before it returns)
  attempts,   \* serial.OpenPort calls made by the running waitForPort
  fails,      \* those of them that failed
  portTicks,  \* receives from the running waitForPort's ticker
  kbuf,       \* lines in the kernel's receive buffer of the port
  sbuf,       \* lines the bufio.Scanner holds, read but not yet returned
  serr,       \* the scanner's sticky error: "none", "eof", "fail"
  lastCmd,    \* the command last written to the port ("none" before)
  dev,        \* the device: "busy" answering a command, "done", "quiet"
  nlines,     \* lines the device emitted since the last command write
  status,     \* globalStatus: the six LTE_ fields
  pid_data,   \* configureModem's local pid_data
  crashed     \* a goroutine panicked (index out of range): the process died

vars == <<enabled, pc, phase, data, err, scanned, open, portErr, attempts,
          fails, portTicks, kbuf, sbuf, serr, lastCmd,
          dev, nlines, status, pid_data, crashed>>

exvars   == <<phase, data, err, scanned>>
portvars == <<open, portErr, attempts, fails, portTicks>>
devvars  == <<kbuf, sbuf, serr, lastCmd, dev, nlines>>

Unset == <<>>

Init ==
  /\ enabled \in BOOLEAN
  /\ pc = [p \in Procs |-> IF p = "main" THEN "start" ELSE "off"]
  /\ phase = [p \in Procs |-> "idle"]
  /\ data = [p \in Procs |-> <<>>]
  /\ err = [p \in Procs |-> "none"]
  /\ scanned = [p \in Procs |-> <<>>]
  /\ open = FALSE
  /\ portErr = "none"
  /\ attempts = 0
  /\ fails = 0
  /\ portTicks = 0
  /\ kbuf = <<>>
  /\ sbuf = <<>>
  /\ serr = "none"
  /\ lastCmd = "none"
  /\ dev = "quiet"
  /\ nlines = 0
  /\ status = [LTE_SignalStrength |-> Unset, LTE_Network |-> Unset,
               LTE_Mode |-> Unset, LTE_ICCID |-> Unset, LTE_SPN |-> Unset,
               LTE_IMEI |-> Unset]
  /\ pid_data = Unset
  /\ crashed = FALSE

\* ---- strings ------------------------------------------------------------
\* strings.Split(s, sep): the fields of s between the occurrences of sep;
\* n occurrences give n+1 fields, and an s without sep gives the one field s.
RECURSIVE Split(_, _)
Split(s, sep) ==
  IF \A i \in 1..Len(s) : s[i] # sep
  THEN <<s>>
  ELSE LET k == CHOOSE i \in 1..Len(s) :
                  s[i] = sep /\ \A j \in 1..(i - 1) : s[j] # sep
       IN  <<SubSeq(s, 1, k - 1)>> \o Split(SubSeq(s, k + 1, Len(s)), sep)

\* The integers whose decimal numerals occur in response lines.
Codes == (0 - NegCodes)..MaxCode

\* The atoms that are decimal numerals (with an optional sign), and their
\* values.
IsDecimal(a) == \E n \in Codes : ToString(n) = a
AtomVal(a) ==
  IF IsDecimal(a) THEN CHOOSE n \in Codes : ToString(n) = a ELSE -1

\* strconv.ParseInt(f, 10, 16) with the error dropped: the value of a field
\* that is one decimal atom, and 0 for a field that does not parse (a
\* leading space, an empty field, a quoted string).
ParseInt(f) == IF Len(f) = 1 /\ IsDecimal(f[1]) THEN AtomVal(f[1]) ELSE 0

\* strings.Split(data[0], ":")[1] panics (index out of range) when data is
\* empty or its first line holds no ':'.
ColonPanics(d) == d = <<>> \/ Len(Split(d[1].txt, ":")) < 2
AfterColon(d)  == Split(d[1].txt, ":")[2]

\* ---- atCommandExchange ---------------------------------------------------
Line(l) == [txt |-> l, stale |-> FALSE]
Stale(buf) ==
  IF buf = <<>> THEN <<>>
  ELSE [i \in 1..Len(buf) |-> [buf[i] EXCEPT !.stale = TRUE]]
Txt(d) == [i \in 1..Len(d) |-> d[i].txt]

\* An exchange is in flight from the write of its command to its return.
InFlight(p) == phase[p] = "scan"

\* modem.serial.Flush() discards what the kernel holds for the port; the
\* bufio.Scanner's buffer is not the port's and keeps what it has read.
Flushed(k) == <<>>

\* modem.serial.Flush(); modem.serial.Write(cmdstring + "\r\n");
\* var data []string.  The two calls are taken as one step (nothing arrives
\* between them).  Every line the device emitted before this write is stale
\* from here on.
Send(p) ==
  /\ ~crashed
  /\ pc[p] \in ExSites
  /\ phase[p] = "idle"
  /\ kbuf' = Stale(Flushed(kbuf))
  /\ sbuf' = Stale(sbuf)
  /\ lastCmd' = CmdAt(pc[p])
  /\ dev' = "busy"
  /\ nlines' = 0
  /\ data' = [data EXCEPT ![p] = <<>>]
  /\ err' = [err EXCEPT ![p] = "none"]
  /\ scanned' = [scanned EXCEPT ![p] = <<>>]
  /\ phase' = [phase EXCEPT ![p] = "scan"]
  /\ UNCHANGED <<enabled, pc, portvars, serr, status, pid_data, crashed>>

\* Mutant of LoopBody: the OK line is appended to the lines returned.
LoopBody_KeepsOK(d, msg) ==
  IF msg.txt = OKL
  THEN [ret |-> TRUE, data |-> Append(d, msg), err |-> "nil"]
  ELSE IF msg.txt = ERRL
       THEN [ret |-> TRUE, data |-> d, err |-> "modem reported error"]
       ELSE [ret |-> FALSE, data |-> Append(d, msg), err |-> "none"]

\* Mutant of LoopBody: no ERROR branch, an ERROR line is one more data line.
LoopBody_NoErrorBranch(d, msg) ==
  IF msg.txt = OKL
  THEN [ret |-> TRUE, data |-> d, err |-> "nil"]
  ELSE [ret |-> FALSE, data |-> Append(d, msg), err |-> "none"]

\* The body of the read loop for one line msg, with d accumulated so far.
LoopBody(d, msg) ==
  IF msg.txt = OKL
  THEN [ret |-> TRUE, data |-> d, err |-> "nil"]
  ELSE IF msg.txt = ERRL
       THEN [ret |-> TRUE, data |-> d, err |-> "modem reported error"]
       ELSE [ret |-> FALSE, data |-> Append(d, msg), err |-> "none"]

\* Mutant of AfterLoop: the end of the stream is not an error.
AfterLoop_EofIsNil(d, se) ==
  IF se = "fail"
  THEN [data |-> d, err |-> "modem read error"]
  ELSE [data |-> d, err |-> "nil"]

\* What follows the loop once Scan() has returned false.
AfterLoop(d, se) ==
  IF se = "fail"
  THEN [data |-> d, err |-> "modem read error"]
  ELSE [data |-> d, err |-> "modem exchange unknown termination"]

\* scanner.Scan() yields a line: one it already holds, or the first of those
\* a Read of the port brings in (a Read takes all the kernel holds).
ScanLine(p) ==
  /\ ~crashed
  /\ phase[p] = "scan"
  /\ sbuf # <<>> \/ (serr = "none" /\ kbuf # <<>>)
  /\ LET buf == IF sbuf # <<>> THEN sbuf ELSE kbuf
         r   == LoopBody(data[p], Head(buf))
     IN  /\ sbuf' = Tail(buf)
         /\ kbuf' = IF sbuf # <<>> THEN kbuf ELSE <<>>
         /\ scanned' = [scanned EXCEPT ![p] = Append(@, Head(buf).txt)]
         /\ data' = [data EXCEPT ![p] = r.data]
         /\ err' = [err EXCEPT ![p] = r.err]
         /\ phase' = [phase EXCEPT ![p] = IF r.ret THEN "ret" ELSE "scan"]
  /\ UNCHANGED <<enabled, pc, portvars, serr, lastCmd,
                 dev, nlines, status, pid_data, crashed>>

\* The Read behind Scan() finds nothing within ReadTimeout: the port's Read
\* returns 0 bytes, which is io.EOF; the scanner keeps it and Scan() is false.
ScanTimeout(p) ==
  /\ ~crashed
  /\ phase[p] = "scan"
  /\ sbuf = <<>> /\ serr = "none" /\ kbuf = <<>>
  /\ serr' = "eof"
  /\ LET r == AfterLoop(data[p], "eof")
     IN  /\ data' = [data EXCEPT ![p] = r.data]
         /\ err' = [err EXCEPT ![p] = r.err]
  /\ phase' = [phase EXCEPT ![p] = "ret"]
  /\ UNCHANGED <<enabled, pc, scanned, portvars, kbuf, sbuf,
                 lastCmd, dev, nlines, status, pid_data, crashed>>

\* The Read behind Scan() fails: the scanner keeps the error, Scan() is false.
ScanReadFail(p) ==
  /\ ~crashed
  /\ phase[p] = "scan"
  /\ sbuf = <<>> /\ serr = "none"
  /\ serr' = "fail"
  /\ LET r == AfterLoop(data[p], "fail")
     IN  /\ data' = [data EXCEPT ![p] = r.data]
         /\ err' = [err EXCEPT ![p] = r.err]
  /\ phase' = [phase EXCEPT ![p] = "ret"]
  /\ UNCHANGED <<enabled, pc, scanned, portvars, kbuf, sbuf,
                 lastCmd, dev, nlines, status, pid_data, crashed>>

\* A scanner that has met io.EOF or an error never reads again: Scan() is
\* false at once, whatever the port holds.
ScanStopped(p) ==
  /\ ~crashed
  /\ phase[p] = "scan"
  /\ sbuf = <<>> /\ serr # "none"
  /\ LET r == AfterLoop(data[p], serr)
     IN  /\ data' = [data EXCEPT ![p] = r.data]
         /\ err' = [err EXCEPT ![p] = r.err]
  /\ phase' = [phase EXCEPT ![p] = "ret"]
  /\ UNCHANGED <<enabled, pc, scanned, portvars, kbuf, sbuf,
                 serr, lastCmd, dev, nlines, status, pid_data, crashed>>

atCommandExchange(p) ==
  \/ Send(p)
  \/ ScanLine(p)
  \/ ScanTimeout(p)
  \/ ScanReadFail(p)
  \/ ScanStopped(p)

\* ---- the device ----------------------------------------------------------
\* The modem answers the command it was last sent with lines (answers to the
\* query, unsolicited lines) and then a sentinel; having answered, it may
\* still emit an unsolicited line.  It may say nothing, and it may answer
\* after the exchange has given up.  What it emits lands in the kernel's
\* buffer of the open port.
Emit(l) == kbuf' = Append(kbuf, Line(l))

DeviceData ==
  /\ ~crashed
  /\ open
  /\ dev = "busy"
  /\ nlines < MaxLines
  /\ \E l \in Answers(lastCmd) \cup {URC} : Emit(l)
  /\ nlines' = nlines + 1
  /\ UNCHANGED <<enabled, pc, exvars, portvars, sbuf, serr,
                 lastCmd, dev, status, pid_data, crashed>>

DeviceFinal ==
  /\ ~crashed
  /\ open
  /\ dev = "busy"
  /\ \E l \in {OKL, ERRL} : Emit(l)
  /\ dev' = "done"
  /\ UNCHANGED <<enabled, pc, exvars, portvars, sbuf, serr,
                 lastCmd, nlines, status, pid_data, crashed>>

DeviceUnsolicited ==
  /\ ~crashed
  /\ open
  /\ dev = "done"
  /\ Emit(URC)
  /\ dev' = "quiet"
  /\ UNCHANGED <<enabled, pc, exvars, portvars, sbuf, serr,
                 lastCmd, nlines, status, pid_data, crashed>>

Device == DeviceData \/ DeviceFinal \/ DeviceUnsolicited

\* ---- control flow helpers ------------------------------------------------
\* The caller has consumed the (data, err) the exchange returned and moves on.
Goto(p, next) ==
  /\ pc' = [pc EXCEPT ![p] = next]
  /\ phase' = [phase EXCEPT ![p] = "idle"]
  /\ data' = [data EXCEPT ![p] = <<>>]
  /\ err' = [err EXCEPT ![p] = "none"]
  /\ scanned' = [scanned EXCEPT ![p] = <<>>]
  /\ crashed' = crashed

\* An index out of range panics; no goroutine recovers, the process dies.
Panic ==
  /\ crashed' = TRUE
  /\ UNCHANGED <<pc, exvars>>

Returned(p, site) == ~crashed /\ pc[p] = site /\ phase[p] = "ret"

\* ---- initLTE -------------------------------------------------------------
\* Mutant of initLTEStart: the enabled flag is not looked at.
initLTEStart_IgnoresEnabled ==
  /\ ~crashed
  /\ pc["main"] = "start"
  /\ pc' = [pc EXCEPT !["main"] = "port_tick"]
  /\ UNCHANGED <<enabled, exvars, portvars, devvars, status,
                 pid_data, crashed>>

\* if !globalSettings.LTE_Enabled { return }
initLTEStart ==
  /\ ~crashed
  /\ pc["main"] = "start"
  /\ pc' = [pc EXCEPT !["main"] = IF enabled THEN "port_tick" ELSE "done"]
  /\ UNCHANGED <<enabled, exvars, portvars, devvars, status,
                 pid_data, crashed>>

\* Mutant of initLTEPort: waitForBoot is skipped, configureModem runs as
\* soon as the port is open.
initLTEPort_SkipsBoot ==
  /\ ~crashed
  /\ pc["main"] = "port_ret"
  /\ pc' = [pc EXCEPT !["main"] = IF portErr # "nil" THEN "done" ELSE "cfg1"]
  /\ attempts' = 0
  /\ fails' = 0
  /\ portTicks' = 0
  /\ UNCHANGED <<enabled, exvars, open, portErr, devvars, status,
                 pid_data, crashed>>

\* modem, err := waitForPort(); if err != nil { return }; waitForBoot(modem)
initLTEPort ==
  /\ ~crashed
  /\ pc["main"] = "port_ret"
  /\ pc' = [pc EXCEPT !["main"] = IF portErr # "nil" THEN "done" ELSE "boot_tick"]
  /\ attempts' = 0
  /\ fails' = 0
  /\ portTicks' = 0
  /\ UNCHANGED <<enabled, exvars, open, portErr, devvars, status,
                 pid_data, crashed>>

\* go updateLTEStatus(modem), and initLTE returns.
initLTEGo ==
  /\ ~crashed
  /\ pc["main"] = "go"
  /\ pc' = [pc EXCEPT !["main"] = "done", !["poller"] = "poll_tick"]
  /\ UNCHANGED <<enabled, exvars, portvars, devvars, status,
                 pid_data, crashed>>

initLTE == initLTEStart \/ initLTEPort \/ initLTEGo

\* ---- waitForPort ---------------------------------------------------------
PortTick ==
  /\ ~crashed
  /\ pc["main"] = "port_tick"
  /\ pc' = [pc EXCEPT !["main"] = "port_open"]
  /\ portTicks' = portTicks + 1
  /\ UNCHANGED <<enabled, exvars, open, portErr, attempts, fails, devvars, status, pid_data, crashed>>

\* Mutant of OpenFail: a failed open is returned to the caller as an error.
OpenFail_Returns ==
  /\ ~crashed
  /\ pc["main"] = "port_open"
  /\ fails < MaxOpenFails
  /\ attempts' = attempts + 1
  /\ fails' = fails + 1
  /\ portErr' = "open failed"
  /\ pc' = [pc EXCEPT !["main"] = "port_ret"]
  /\ UNCHANGED <<enabled, exvars, open, portTicks, devvars, status, pid_data,
                 crashed>>

\* serial.OpenPort fails: log and continue.
OpenFail ==
  /\ ~crashed
  /\ pc["main"] = "port_open"
  /\ fails < MaxOpenFails
  /\ attempts' = attempts + 1
  /\ fails' = fails + 1
  /\ pc' = [pc EXCEPT !["main"] = "port_tick"]
  /\ UNCHANGED <<enabled, exvars, open, portErr, portTicks, devvars, status, pid_data, crashed>>

\* serial.OpenPort succeeds: return atmodem{p, bufio.NewScanner(p)}, nil.
OpenOk ==
  /\ ~crashed
  /\ pc["main"] = "port_open"
  /\ attempts' = attempts + 1
  /\ open' = TRUE
  /\ portErr' = "nil"
  /\ kbuf' = <<>>
  /\ sbuf' = <<>>
  /\ serr' = "none"
  /\ dev' = "done"
  /\ pc' = [pc EXCEPT !["main"] = "port_ret"]
  /\ UNCHANGED <<enabled, exvars, fails, portTicks, lastCmd,
                 nlines, status, pid_data, crashed>>

waitForPort == PortTick \/ OpenFail \/ OpenOk

\* ---- waitForBoot ---------------------------------------------------------
BootTick ==
  /\ ~crashed
  /\ pc["main"] = "boot_tick"
  /\ pc' = [pc EXCEPT !["main"] = "boot"]
  /\ UNCHANGED <<enabled, exvars, portvars, devvars, status, pid_data,
                 crashed>>

\* Mutant of BootRet: the poller is started as soon as the modem answers,
\* before the configuration has run.
BootRet_StartsPoller ==
  /\ Returned("main", "boot")
  /\ IF err["main"] # "nil"
     THEN Goto("main", "boot_tick")
     ELSE /\ pc' = [pc EXCEPT !["main"] = "cfg1", !["poller"] = "poll_tick"]
          /\ phase' = [phase EXCEPT !["main"] = "idle"]
          /\ data' = [data EXCEPT !["main"] = <<>>]
          /\ err' = [err EXCEPT !["main"] = "none"]
          /\ scanned' = [scanned EXCEPT !["main"] = <<>>]
          /\ crashed' = crashed
  /\ UNCHANGED <<enabled, portvars, kbuf, sbuf, serr, lastCmd,
                 dev, nlines, status, pid_data>>

\* if err != nil { log } else { return }
BootRet ==
  /\ Returned("main", "boot")
  /\ Goto("main", IF err["main"] # "nil" THEN "boot_tick" ELSE "cfg1")
  /\ UNCHANGED <<enabled, portvars, kbuf, sbuf, serr, lastCmd,
                 dev, nlines, status, pid_data>>

waitForBoot == BootTick \/ BootRet

\* ---- configureModem ------------------------------------------------------
\* A step that stores strings.Split(data[0], ":")[1] in a status field.
CfgStore(site, next, field) ==
  /\ Returned("main", site)
  /\ IF err["main"] # "nil"
     THEN Goto("main", "gps1") /\ UNCHANGED status
     ELSE IF ColonPanics(data["main"])
          THEN Panic /\ UNCHANGED status
          ELSE /\ status' = [status EXCEPT ![field] = AfterColon(data["main"])]
               /\ Goto("main", next)
  /\ UNCHANGED <<enabled, portvars, kbuf, sbuf, serr, lastCmd,
                 dev, nlines, pid_data>>

CfgICCID == CfgStore("cfg1", "cfg2", "LTE_ICCID")

\* Mutant of CfgSPN: an error is logged and the sequence goes on.
CfgSPN_ContinuesOnError ==
  /\ Returned("main", "cfg2")
  /\ IF err["main"] # "nil"
     THEN Goto("main", "cfg3") /\ UNCHANGED status
     ELSE IF ColonPanics(data["main"])
          THEN Panic /\ UNCHANGED status
          ELSE /\ status' = [status EXCEPT !.LTE_SPN =
                               Split(AfterColon(data["main"]), ",")[1]]
               /\ Goto("main", "cfg3")
  /\ UNCHANGED <<enabled, portvars, kbuf, sbuf, serr, lastCmd,
                 dev, nlines, pid_data>>

\* globalStatus.LTE_SPN = strings.Split(spn_data, ",")[0]
CfgSPN ==
  /\ Returned("main", "cfg2")
  /\ IF err["main"] # "nil"
     THEN Goto("main", "gps1") /\ UNCHANGED status
     ELSE IF ColonPanics(data["main"])
          THEN Panic /\ UNCHANGED status
          ELSE /\ status' = [status EXCEPT !.LTE_SPN =
                               Split(AfterColon(data["main"]), ",")[1]]
               /\ Goto("main", "cfg3")
  /\ UNCHANGED <<enabled, portvars, kbuf, sbuf, serr, lastCmd,
                 dev, nlines, pid_data>>

CfgIMEI == CfgStore("cfg3", "cfg4", "LTE_IMEI")

\* pid_data := strings.Split(data[0], ":")[1]; if pid_data != "9011" {...}
NeedsSwitch(pid) == pid # <<"9011">>

CfgPid ==
  /\ Returned("main", "cfg4")
  /\ IF err["main"] # "nil"
     THEN Goto("main", "gps1") /\ UNCHANGED pid_data
     ELSE IF ColonPanics(data["main"])
          THEN Panic /\ UNCHANGED pid_data
          ELSE /\ pid_data' = AfterColon(data["main"])
               /\ Goto("main", IF NeedsSwitch(AfterColon(data["main"]))
                               THEN "cfg5" ELSE "gps1")
  /\ UNCHANGED <<enabled, portvars, kbuf, sbuf, serr, lastCmd,
                 dev, nlines, status>>

\* Mutant of Proceed: the error is logged and the next command is issued.
Proceed_IgnoresError(e, next, after) == next

\* The next program point after a command whose answer is only checked for
\* an error: on an error the function returns (to after), else goes on.
Proceed(e, next, after) == IF e # "nil" THEN after ELSE next

CfgStep(site, next) ==
  /\ Returned("main", site)
  /\ Goto("main", Proceed(err["main"], next, "gps1"))
  /\ UNCHANGED <<enabled, portvars, kbuf, sbuf, serr, lastCmd,
                 dev, nlines, status, pid_data>>

CfgSwitch == CfgStep("cfg5", "cfg6")
CfgCtx1   == CfgStep("cfg6", "cfg7")
CfgCtx6   == CfgStep("cfg7", "cfg8")
CfgReset  == CfgStep("cfg8", "gps1")

configureModem ==
  \/ CfgICCID \/ CfgSPN \/ CfgIMEI \/ CfgPid
  \/ CfgSwitch \/ CfgCtx1 \/ CfgCtx6 \/ CfgReset

\* ---- initLTEGPS ----------------------------------------------------------
\* Mutant of GpsStep: the error is logged and the next command is issued.
GpsStep_IgnoresError(site, next) ==
  /\ Returned("main", site)
  /\ Goto("main", next)
  /\ UNCHANGED <<enabled, portvars, kbuf, sbuf, serr, lastCmd,
                 dev, nlines, status, pid_data>>

\* One command of initLTEGPS has returned: if err != nil { log; return }.
GpsStep(site, next) ==
  /\ Returned("main", site)
  /\ Goto("main", Proceed(err["main"], next, "go"))
  /\ UNCHANGED <<enabled, portvars, kbuf, sbuf, serr, lastCmd,
                 dev, nlines, status, pid_data>>

GpsStop    == GpsStep("gps1", "gps2")
GpsPort    == GpsStep("gps2", "gps3")
GpsNmea    == GpsStep("gps3", "gps4")
GpsRate    == GpsStep("gps4", "gps5")
GpsStart   == GpsStep("gps5", "gps6")
GpsInfoCfg == GpsStep("gps6", "go")

initLTEGPS ==
  GpsStop \/ GpsPort \/ GpsNmea \/ GpsRate \/ GpsStart \/ GpsInfoCfg

\* ---- updateLTEStatus -----------------------------------------------------
PollTick ==
  /\ ~crashed
  /\ pc["poller"] = "poll_tick"
  /\ pc' = [pc EXCEPT !["poller"] = "q1"]
  /\ UNCHANGED <<enabled, exvars, portvars, devvars, status, pid_data,
                 crashed>>

\* fmt.Sprintf("%d", n)
Sprintd(n) == <<ToString(n)>>

\* The if / else-if chain over rssi_raw: the new LTE_SignalStrength, given
\* the one stored before.
SignalStrength(prev, rssi_raw) ==
  IF rssi_raw = 0 THEN <<"<-113">>
  ELSE IF rssi_raw < 31 THEN Sprintd(-113 + rssi_raw * 2)
  ELSE IF rssi_raw = 31 THEN <<">-51">>
  ELSE IF rssi_raw > 99 /\ rssi_raw < 191 THEN Sprintd(-116 + rssi_raw)
  ELSE IF rssi_raw = 191 THEN <<">-25">>
  ELSE IF rssi_raw = 99 \/ rssi_raw = 199 THEN <<"Unknown">>
  ELSE prev

PollCSQ ==
  /\ Returned("poller", "q1")
  /\ IF err["poller"] # "nil"
     THEN Goto("poller", "poll_tick") /\ UNCHANGED status
     ELSE IF ColonPanics(data["poller"])
          THEN Panic /\ UNCHANGED status
          ELSE /\ status' = [status EXCEPT !.LTE_SignalStrength =
                    SignalStrength(@,
                      ParseInt(Split(AfterColon(data["poller"]), ",")[1]))]
               /\ Goto("poller", "q2")
  /\ UNCHANGED <<enabled, portvars, kbuf, sbuf, serr, lastCmd,
                 dev, nlines, pid_data>>

\* Mutant of PollCOPS: on an error the tick goes on with the next query.
PollCOPS_ContinuesOnError ==
  /\ Returned("poller", "q2")
  /\ IF err["poller"] # "nil"
     THEN Goto("poller", "q3") /\ UNCHANGED status
     ELSE IF \/ ColonPanics(data["poller"])
             \/ Len(Split(AfterColon(data["poller"]), ",")) < 3
          THEN Panic /\ UNCHANGED status
          ELSE /\ status' = [status EXCEPT !.LTE_Network =
                               Split(AfterColon(data["poller"]), ",")[3]]
               /\ Goto("poller", "q3")
  /\ UNCHANGED <<enabled, portvars, kbuf, sbuf, serr, lastCmd,
                 dev, nlines, pid_data>>

\* globalStatus.LTE_Network = strings.Split(cops_raw, ",")[2]
PollCOPS ==
  /\ Returned("poller", "q2")
  /\ IF err["poller"] # "nil"
     THEN Goto("poller", "poll_tick") /\ UNCHANGED status
     ELSE IF \/ ColonPanics(data["poller"])
             \/ Len(Split(AfterColon(data["poller"]), ",")) < 3
          THEN Panic /\ UNCHANGED status
          ELSE /\ status' = [status EXCEPT !.LTE_Network =
                               Split(AfterColon(data["poller"]), ",")[3]]
               /\ Goto("poller", "q3")
  /\ UNCHANGED <<enabled, portvars, kbuf, sbuf, serr, lastCmd,
                 dev, nlines, pid_data>>

\* globalStatus.LTE_Mode = fmt.Sprintf("%s - %s", networkmode[0], networkmode[1])
PollCPSI ==
  /\ Returned("poller", "q3")
  /\ IF err["poller"] # "nil"
     THEN Goto("poller", "poll_tick") /\ UNCHANGED status
     ELSE IF \/ ColonPanics(data["poller"])
             \/ Len(Split(AfterColon(data["poller"]), ",")) < 2
          THEN Panic /\ UNCHANGED status
          ELSE /\ LET networkmode == Split(AfterColon(data["poller"]), ",")
                  IN  status' = [status EXCEPT !.LTE_Mode =
                        networkmode[1] \o <<" - ">> \o networkmode[2]]
               /\ Goto("poller", "poll_tick")
  /\ UNCHANGED <<enabled, portvars, kbuf, sbuf, serr, lastCmd,
                 dev, nlines, pid_data>>

updateLTEStatus == PollTick \/ PollCSQ \/ PollCOPS \/ PollCPSI

\* ---- the program ---------------------------------------------------------
Next ==
  \/ initLTE
  \/ waitForPort
  \/ waitForBoot
  \/ configureModem
  \/ initLTEGPS
  \/ updateLTEStatus
  \/ \E p \in Procs : atCommandExchange(p)
  \/ Device

Spec == Init /\ [][Next]_vars

\* ---- the signal-quality decode on its own --------------------------------
\* The answers to AT+CSQ over all the codes: the code right after the colon,
\* the code after a blank as the device writes it, and an empty code field.
CsqLine(c) == <<"+CSQ", ":", ToString(c), ",", "99">>
CSQBAD     == <<"+CSQ", ":", ",", "99">>
CsqLines   == {CsqLine(c) : c \in Codes} \cup {CSQL, CSQBAD}

\* The poller's AT+CSQ exchange has just returned Success with one answer
\* line, over some stored signal strength.
DecodeInit ==
  /\ enabled = TRUE
  /\ pc = [p \in Procs |-> IF p = "main" THEN "done" ELSE "q1"]
  /\ phase = [p \in Procs |-> IF p = "main" THEN "idle" ELSE "ret"]
  /\ \E l \in CsqLines :
       /\ data = [p \in Procs |-> IF p = "main" THEN <<>> ELSE <<Line(l)>>]
       /\ scanned = [p \in Procs |-> IF p = "main" THEN <<>> ELSE <<l, OKL>>]
  /\ err = [p \in Procs |-> IF p = "main" THEN "none" ELSE "nil"]
  /\ open = TRUE
  /\ portErr = "nil"
  /\ attempts = 0
  /\ fails = 0
  /\ portTicks = 0
  /\ kbuf = <<>>
  /\ sbuf = <<>>
  /\ serr = "none"
  /\ lastCmd = "AT+CSQ"
  /\ dev = "done"
  /\ nlines = 1
  /\ \E ss \in {Unset, <<"Unknown">>} :
       status = [LTE_SignalStrength |-> ss, LTE_Network |-> Unset,
                 LTE_Mode |-> Unset, LTE_ICCID |-> Unset, LTE_SPN |-> Unset,
                 LTE_IMEI |-> Unset]
  /\ pid_data = Unset
  /\ crashed = FALSE

DecodeNext == PollCSQ

DecodeSpec == DecodeInit /\ [][DecodeNext]_vars

\* ---- properties ----------------------------------------------------------
Success(e)      == e = "nil"
DeviceError(e)  == e = "modem reported error"
ChannelError(e) == e \in {"modem read error", "modem exchange unknown termination"}

IsSentinel(l) == l \in {OKL, ERRL}

\* The place of the first OK or ERROR among the lines sq; 0 when there is none.
FirstSentinel(sq) ==
  IF \E i \in 1..Len(sq) : IsSentinel(sq[i])
  THEN CHOOSE i \in 1..Len(sq) :
         IsSentinel(sq[i]) /\ \A j \in 1..(i - 1) : ~IsSentinel(sq[j])
  ELSE 0

\* The lines of sq before its first sentinel.
BeforeSentinel(sq) == SubSeq(sq, 1, FirstSentinel(sq) - 1)

\* C1: when the lines the scanner yielded to an exchange have OK as their
\* first sentinel, the exchange returns a nil error and exactly the lines
\* that preceded that OK, in the order they came, without the OK.
C1_OkReturnsLinesBeforeOk ==
  \A p \in Procs :
    (/\ phase[p] = "ret"
     /\ FirstSentinel(scanned[p]) # 0
     /\ scanned[p][FirstSentinel(scanned[p])] = OKL)
    => /\ Success(err[p])
       /\ Txt(data[p]) = BeforeSentinel(scanned[p])

\* An exchange has returned on OK after two different lines.
C1_Witness ==
  \E p \in Procs :
    /\ phase[p] = "ret"
    /\ Len(scanned[p]) = 3
    /\ scanned[p][3] = OKL
    /\ scanned[p][1] # scanned[p][2]
    /\ Success(err[p])

\* C2: when the lines the scanner yielded to an exchange have ERROR as their
\* first sentinel, the exchange returns the device's error and exactly the
\* lines that preceded that ERROR, in the order they came.
C2_ErrorReturnsLinesBeforeError ==
  \A p \in Procs :
    (/\ phase[p] = "ret"
     /\ FirstSentinel(scanned[p]) # 0
     /\ scanned[p][FirstSentinel(scanned[p])] = ERRL)
    => /\ DeviceError(err[p])
       /\ Txt(data[p]) = BeforeSentinel(scanned[p])

\* An exchange has returned on ERROR after two different lines.
C2_Witness ==
  \E p \in Procs :
    /\ phase[p] = "ret"
    /\ Len(scanned[p]) = 3
    /\ scanned[p][3] = ERRL
    /\ scanned[p][1] # scanned[p][2]
    /\ DeviceError(err[p])

\* C3: when the scanner stops (end of stream, read timeout, read failure)
\* before it has yielded OK or ERROR, the exchange returns a channel error
\* and all the lines read so far, in the order they came.
C3_EndOfStreamReturnsPartialLines ==
  \A p \in Procs :
    (phase[p] = "ret" /\ FirstSentinel(scanned[p]) = 0)
    => /\ ChannelError(err[p])
       /\ Txt(data[p]) = scanned[p]

\* An exchange has returned on a read timeout after some lines.
C3_Witness ==
  \E p \in Procs :
    /\ phase[p] = "ret"
    /\ FirstSentinel(scanned[p]) = 0
    /\ Len(scanned[p]) >= 2
    /\ serr = "eof"
    /\ err[p] = "modem exchange unknown termination"

\* C4: the lines an exchange returns hold no line the device emitted before
\* the exchange's command was written.
C4_NoStaleLineReturned ==
  \A p \in Procs : \A i \in 1..Len(data[p]) : ~data[p][i].stale

\* C5: waitForPort returns the open handle and a nil error after exactly one
\* more open attempt than there were failed attempts, one attempt per tick,
\* and it never returns an error.
C5_PortAfterNPlusOneAttempts ==
  /\ portErr \in {"none", "nil"}
  /\ pc["main"] = "port_ret" =>
       /\ open
       /\ portErr = "nil"
       /\ attempts = fails + 1
       /\ portTicks = attempts

\* waitForPort has returned after as many failed attempts as the bound allows.
C5_Witness ==
  /\ pc["main"] = "port_ret"
  /\ fails = MaxOpenFails
  /\ open

\* The step is main's or the poller's caller taking the result of an exchange.
Takes(p) == phase[p] = "ret" /\ phase'[p] # "ret"
\* The step writes a command to the port.
Sends(p) == phase[p] = "idle" /\ phase'[p] = "scan"

\* C6: a probe whose answer OK is what the port holds when the exchange
\* returns, with no read failure, returns Success, whatever the outcomes of
\* the probes before it; waitForBoot then returns.
C6_AnsweredProbeEndsBoot ==
  [][(/\ pc["main"] = "boot"
      /\ phase["main"] = "scan"
      /\ sbuf = <<>>
      /\ kbuf # <<>>
      /\ Head(kbuf).txt = OKL
      /\ phase'["main"] = "ret"
      /\ serr' # "fail")
     => Success(err'["main"])]_vars

\* C7: no two exchanges are in flight at once, and the poller runs only
\* once initLTE has returned.
C7_OneExchangeInFlight ==
  /\ ~(phase["main"] # "idle" /\ phase["poller"] # "idle")
  /\ pc["poller"] # "off" => pc["main"] = "done"

\* The poller has an exchange in flight.
C7_Witness ==
  /\ InFlight("poller")
  /\ pc["main"] = "done"
  /\ lastCmd = "AT+COPS?"

\* The value a USB-personality answer reports: the text after the colon
\* without its blanks.
Reported(pid) == SelectSeq(pid, LAMBDA x : x # " ")

SwitchCmds ==
  {"AT+CUSBPIDSWITCH=9011,1,1", "AT+CGDCONT=1", "AT+CGDCONT=6", "AT+CRESET"}

\* C8: when the USB-personality query reported mode 9011, none of the
\* switch, the two context definitions and the reset is written.
C8_NoSwitchWhenAlready9011 ==
  Reported(pid_data) = <<"9011">> => lastCmd \notin SwitchCmds

\* C9: when the query reports another value configureModem goes on to the
\* switch; switch, context 1, context 6 and reset are written only in this
\* order, each only after the one before it returned Success; after a
\* failure of one of them configureModem returns.
C9_SwitchSequenceInOrder ==
  [][/\ (Takes("main") /\ pc["main"] = "cfg4" /\ Success(err["main"])
           /\ ~crashed' /\ Reported(pid_data') # <<"9011">>)
        => pc'["main"] = "cfg5"
     /\ Sends("main") =>
          /\ lastCmd' = "AT+CUSBPIDSWITCH=9011,1,1" =>
               lastCmd = "AT+CUSBPIDSWITCH?"
          /\ lastCmd' = "AT+CGDCONT=1" => lastCmd = "AT+CUSBPIDSWITCH=9011,1,1"
          /\ lastCmd' = "AT+CGDCONT=6" => lastCmd = "AT+CGDCONT=1"
          /\ lastCmd' = "AT+CRESET" => lastCmd = "AT+CGDCONT=6"
     /\ (pc'["main"] \in {"cfg5", "cfg6", "cfg7", "cfg8"}
           /\ pc["main"] # pc'["main"])
        => Takes("main") /\ Success(err["main"])
     /\ (Takes("main") /\ pc["main"] \in {"cfg5", "cfg6", "cfg7", "cfg8"}
           /\ ~Success(err["main"]))
        => pc'["main"] = "gps1"]_vars

\* The reset has been written after a query that reported another value.
C9_Witness ==
  /\ lastCmd = "AT+CRESET"
  /\ pid_data = <<" ", "9001">>
  /\ pc["main"] = "gps1"

\* The places of the main flow after configureModem has returned.
AfterCfg == GpsSites \cup {"go", "done"}

\* C10: an error at the ICCID, SPN, IMEI or USB-personality step makes
\* configureModem return at once with the status record as it was, and once
\* configureModem has returned none of its commands is written and the
\* fields it stores do not change.
C10_QueryErrorEndsConfigure ==
  [][/\ (Takes("main") /\ pc["main"] \in {"cfg1", "cfg2", "cfg3", "cfg4"}
           /\ ~Success(err["main"]))
        => /\ pc'["main"] = "gps1"
           /\ status' = status
           /\ pid_data' = pid_data
     /\ pc["main"] \in AfterCfg
        => /\ pc'["main"] \in AfterCfg
           /\ status'.LTE_ICCID = status.LTE_ICCID
           /\ status'.LTE_SPN = status.LTE_SPN
           /\ status'.LTE_IMEI = status.LTE_IMEI
           /\ pid_data' = pid_data
           /\ Sends("main") => lastCmd' \notin {CmdAt(c) : c \in CfgSites}]_vars

\* The SPN query has failed after the ICCID was stored: configureModem has
\* returned with the ICCID kept and the SPN and IMEI as they were.
C10_Witness ==
  /\ pc["main"] = "gps1"
  /\ lastCmd = "AT+CSPN?"
  /\ status.LTE_ICCID # Unset
  /\ status.LTE_SPN = Unset
  /\ status.LTE_IMEI = Unset


\* C11: the six commands of initLTEGPS are written only in their fixed
\* order, each only after the one before it returned Success (so AT+CGPS=1
\* only after stop, port, sentence mask and rate were accepted); after the
\* first failure initLTEGPS returns without writing the rest.
C11_GpsSequenceInOrder ==
  [][/\ Sends("main") =>
          /\ lastCmd' = "AT+CGPSNMEAPORTCFG=3" => lastCmd = "AT+CGPS=0"
          /\ lastCmd' = "AT+CGPSNMEA=197119" => lastCmd = "AT+CGPSNMEAPORTCFG=3"
          /\ lastCmd' = "AT+CGPSNMEARATE=1" => lastCmd = "AT+CGPSNMEA=197119"
          /\ lastCmd' = "AT+CGPS=1" => lastCmd = "AT+CGPSNMEARATE=1"
          /\ lastCmd' = "AT+CGPSINFOCFG=1,31" => lastCmd = "AT+CGPS=1"
          /\ pc["main"] \in GpsSites => lastCmd' = CmdAt(pc["main"])
     /\ (pc'["main"] \in GpsSites \ {"gps1"} /\ pc["main"] # pc'["main"])
        => /\ Takes("main") /\ Success(err["main"])
           /\ <<pc["main"], pc'["main"]>> \in
                {<<"gps1", "gps2">>, <<"gps2", "gps3">>, <<"gps3", "gps4">>,
                 <<"gps4", "gps5">>, <<"gps5", "gps6">>}
     /\ (Takes("main") /\ pc["main"] \in GpsSites /\ ~Success(err["main"]))
        => pc'["main"] = "go"]_vars

\* All six commands were accepted: the last one written is AT+CGPSINFOCFG
\* and initLTEGPS has returned.
C11_Witness ==
  /\ lastCmd = "AT+CGPSINFOCFG=1,31"
  /\ pc["main"] = "go"
  /\ ~crashed


\* The table of the signal-quality codes: the string stored for code c over
\* the stored value prev.
DecodeTable(c, prev) ==
  IF c = 0 THEN <<"<-113">>
  ELSE IF c \in 1..30 THEN <<ToString(-113 + 2 * c)>>
  ELSE IF c = 31 THEN <<">-51">>
  ELSE IF c \in 100..190 THEN <<ToString(-116 + c)>>
  ELSE IF c = 191 THEN <<">-25">>
  ELSE IF c \in {99, 199} THEN <<"Unknown">>
  ELSE prev

\* C12: for every code c the decode of the answer +CSQ:c,99 stores the
\* table's string for c in 0..31 and 99..199, and leaves the stored signal
\* strength as it was for every other c (negative, 32..98, 192..198, above
\* 199).
C12_DecodeFollowsTable ==
  [][\A c \in Codes :
       (/\ Returned("poller", "q1")
        /\ Success(err["poller"])
        /\ Txt(data["poller"]) = <<CsqLine(c)>>)
       => status'.LTE_SignalStrength =
            DecodeTable(c, status.LTE_SignalStrength)]_vars


\* C13: when the ICCID query is answered with the line +ICCID: 89010 and OK
\* the stored ICCID is 89010, and when the signal-quality query is answered
\* with +CSQ: 15,99 and OK the stored signal strength is -83.
C13_ScenarioStoresDecodedValues ==
  [][/\ (/\ Returned("main", "cfg1")
         /\ Success(err["main"])
         /\ Txt(data["main"]) = <<ICCIDL>>)
        => status'.LTE_ICCID = <<"89010">>
     /\ (/\ Returned("poller", "q1")
         /\ Success(err["poller"])
         /\ Txt(data["poller"]) = <<CSQL>>)
        => status'.LTE_SignalStrength = <<"-83">>]_vars


\* C14: the poller never terminates abnormally: whatever the device
\* answers, no query of updateLTEStatus brings the process down.
C14_PollerNeverPanics ==
  ~(crashed /\ pc["poller"] \in PollSites /\ phase["poller"] = "ret")

\* C15: a telemetry query that failed on an earlier tick (the scanner was
\* still reading when the poller stored a signal strength, so what failed
\* since then was a telemetry query) does not keep a later query from
\* succeeding: when the device has answered the poller's pending query in
\* full (its answer line and OK wait on the port) and the read does not
\* fail, the exchange does not give up.
C15_AnsweredQueryAfterFailure ==
  [][(/\ pc["poller"] \in PollSites
      /\ status.LTE_SignalStrength # Unset
      /\ phase["poller"] = "scan"
      /\ sbuf = <<>>
      /\ Len(kbuf) = 2
      /\ Head(kbuf).txt \in Answers(lastCmd)
      /\ kbuf[2].txt = OKL
      /\ \A i \in 1..2 : ~kbuf[i].stale
      /\ serr' # "fail")
     => phase'["poller"] = "scan"]_vars

\* C16: an error inside configureModem or initLTEGPS never terminates the
\* process: whatever the device answers, no step of the two brings the
\* process down, so initLTEGPS and the poller are still started.
C16_ConfigNeverPanics ==
  ~(crashed /\ pc["main"] \in CfgSites \cup GpsSites)


\* The stage of initLTE a program point of the main flow belongs to.
StageOf(x) ==
  CASE x = "start" -> 0
    [] x \in {"port_tick", "port_open", "port_ret"} -> 1
    [] x \in {"boot_tick", "boot"} -> 2
    [] x \in CfgSites -> 3
    [] x \in GpsSites -> 4
    [] x = "go" -> 5
    [] x = "done" -> 6

\* C17: the stages run in the order port, boot, configure, GPS, poller, each
\* gating the next: a command is written only on the open port and only by
\* the stage it belongs to; configureModem is entered only when an AT probe
\* returned Success, initLTEGPS only when configureModem returned, and the
\* poller is started, and writes its queries, only when initLTEGPS returned.
C17_StagesGateEachOther ==
  [][/\ StageOf(pc'["main"]) # StageOf(pc["main"]) =>
          \/ pc'["main"] = "done" /\ pc["main"] \in {"start", "port_ret", "go"}
          \/ /\ StageOf(pc'["main"]) = StageOf(pc["main"]) + 1
             /\ pc'["main"] = "boot_tick" => open /\ portErr = "nil"
             /\ pc'["main"] \in CfgSites =>
                  /\ pc'["main"] = "cfg1" /\ pc["main"] = "boot"
                  /\ Takes("main") /\ Success(err["main"])
             /\ pc'["main"] \in GpsSites =>
                  pc'["main"] = "gps1" /\ Takes("main")
             /\ pc'["main"] = "go" => Takes("main")
     /\ Sends("main") =>
          /\ open
          /\ pc["main"] \in ExSites \ PollSites
          /\ lastCmd' = CmdAt(pc["main"])
     /\ Sends("poller") =>
          /\ open
          /\ pc["poller"] \in PollSites
          /\ lastCmd' = CmdAt(pc["poller"])
          /\ pc["main"] = "done"
     /\ (pc["poller"] = "off" /\ pc'["poller"] # "off") => pc["main"] = "go"]_vars

\* The poller has written its last query, the radio-mode query, after all
\* the stages before it have run.
C17_Witness ==
  /\ InFlight("poller")
  /\ lastCmd = "AT+CPSI?"
  /\ pc["main"] = "done"
  /\ status.LTE_Network # Unset


\* The code field of a signal-quality answer: what stands between the colon
\* and the first comma, without its blanks.
CodeField(d) == SelectSeq(Split(AfterColon(d), ",")[1], LAMBDA x : x # " ")

\* C18: a signal-quality answer whose code field is not an integer cannot
\* be decoded, and leaves the stored signal strength as it was.
C18_UndecodableLeavesField ==
  [][(/\ Returned("poller", "q1")
      /\ Success(err["poller"])
      /\ ~ColonPanics(data["poller"])
      /\ ~(Len(CodeField(data["poller"])) = 1
             /\ IsDecimal(CodeField(data["poller"])[1])))
     => status'.LTE_SignalStrength = status.LTE_SignalStrength]_vars


\* C19: within a tick the poller writes AT+CSQ, AT+COPS?, AT+CPSI? in this
\* order, each only after the one before it returned Success; the first
\* query that fails ends the tick with the status record as it is (the
\* fields stored earlier in the tick stay, the later ones are not touched),
\* and a tick always starts with AT+CSQ.
C19_TickOrderAndFirstFailureEndsTick ==
  [][/\ Sends("poller") => lastCmd' = CmdAt(pc["poller"])
     /\ pc'["poller"] # pc["poller"] =>
          /\ pc["poller"] = "poll_tick" => pc'["poller"] = "q1"
          /\ pc'["poller"] = "q1" => pc["poller"] = "poll_tick"
          /\ pc'["poller"] = "q2" =>
               pc["poller"] = "q1" /\ Takes("poller") /\ Success(err["poller"])
          /\ pc'["poller"] = "q3" =>
               pc["poller"] = "q2" /\ Takes("poller") /\ Success(err["poller"])
     /\ (Takes("poller") /\ ~Success(err["poller"]))
        => pc'["poller"] = "poll_tick" /\ status' = status
     /\ (Takes("poller") /\ pc["poller"] \in {"q2", "q3"})
        => status'.LTE_SignalStrength = status.LTE_SignalStrength
     /\ (Takes("poller") /\ pc["poller"] = "q3")
        => status'.LTE_Network = status.LTE_Network]_vars

\* The operator query has failed after the signal strength was stored: the
\* tick is over, the radio-mode query was not written, and the operator
\* and the radio mode are as they were.
C19_Witness ==
  /\ pc["poller"] = "poll_tick"
  /\ lastCmd = "AT+COPS?"
  /\ status.LTE_SignalStrength # Unset
  /\ status.LTE_Network = Unset
  /\ status.LTE_Mode = Unset
  /\ ~crashed

\* C20: with the enabled flag false initLTE does nothing: the port is never
\* opened (no attempt, no tick), no command is written, the poller is not
\* started and the status record stays as it was.
C20_DisabledDoesNothing ==
  ~enabled =>
    /\ pc["main"] \in {"start", "done"}
    /\ pc["poller"] = "off"
    /\ ~open /\ attempts = 0 /\ portTicks = 0 /\ portErr = "none"
    /\ lastCmd = "none"
    /\ \A p \in Procs : phase[p] = "idle"
    /\ \A f \in DOMAIN status : status[f] = Unset

\* initLTE has returned with the enabled flag false.
C20_Witness ==
  /\ ~enabled
  /\ pc["main"] = "done"

=============================================================================
